---- MODULE Spec2Model ----
(***************************************************************************)
(* State-machine model of the SB 988 simulator core:                      *)
(*   core/simulation_engine.py  (SimulationConfig, SimulationEngine)       *)
(*   core/entities.py           (Freelancer, Client, Contract, ...)        *)
(*                                                                         *)
(* Time is counted in half days since the configured start of the         *)
(* calendar (tick 0 = 2024-01-01 00:00, tick 2 = 2024-01-02 00:00), so a   *)
(* datetime and its calendar date differ.  Decimal amounts are integers.   *)
(* Floats that are quotients of integers are exact rationals [num, den]    *)
(* in lowest terms (two equal floats are the same record).                 *)
(***************************************************************************)
EXTENDS Integers, Sequences, FiniteSets, TLC

VARIABLES
    config,                    \* SimulationEngine.config
    current_time,              \* SimulationEngine.current_time (ticks)
    freelancers,               \* id -> Freelancer
    clients,                   \* id -> Client
    contracts,                 \* id -> Contract
    transactions,              \* sequence of Transaction
    market_snapshots,          \* sequence of MarketSnapshot
    metrics_collector,         \* MetricsCollector instance
    scenarios,                 \* sequence of Scenario
    freelancer_behavior_model, \* injected callable or None
    client_behavior_model,     \* injected callable or None
    market_dynamics_model,     \* injected callable or None
    np_random,                 \* state of the process-wide numpy random source
    pc,                        \* position of the caller: "idle", "loop", "break"
    iteration,                 \* local variable of run()
    results,                   \* value returned by the last run(), or None
    outcome,                   \* how the last step()/run() call ended
    last_step,                 \* observation of the last step() call
    run_entry,                 \* observation of the engine when run() was entered
    budget,                    \* calls the caller may still make
    instances,                 \* entities constructed so far (entities.py)
    uuid_issued,               \* number of uuid4() values handed out
    heap,                      \* list objects: reference -> contents
    replay                     \* first of two runs with the same configuration

vars == <<config, current_time, freelancers, clients, contracts, transactions,
          market_snapshots, metrics_collector, scenarios,
          freelancer_behavior_model, client_behavior_model,
          market_dynamics_model, np_random, pc, iteration, results, outcome,
          last_step, run_entry, budget, instances, uuid_issued, heap, replay>>

engine_vars == <<current_time, freelancers, clients, contracts, transactions,
                 market_snapshots, metrics_collector>>
model_vars == <<freelancer_behavior_model, client_behavior_model,
                market_dynamics_model>>
entity_vars == <<instances, uuid_issued, heap>>

\* Python's None: "None" where the other values are strings, the empty
\* tuple (against a one-element tuple) where they are numbers or records.
None == "None"
Absent == <<>>
Some(x) == <<x>>

(***************************************************************************)
(* Bounds of the model.                                                    *)
(***************************************************************************)
MaxEndDay == 3          \* a configured end_date: midnight of this day
MaxIterCap == 12        \* iteration caps tried with a non-positive time step
MaxScenarios == 2       \* scenarios registered by the caller
MaxDirectSteps == 2     \* step() calls made by the caller outside run()
MaxRuns == 2            \* run() calls made by the caller
MaxSnapshotLog == 11    \* length of the snapshot logs fed to the predicate
MaxInstances == 3       \* entities constructed in the entity model
MaxAppends == 2         \* items appended to the lists of contracts

(***************************************************************************)
(* Enumerations (entities.py).                                             *)
(***************************************************************************)
FreelancerType == {"independent_contractor", "gig_worker", "consultant",
                   "creative_professional", "technical_specialist"}
ClientType == {"small_business", "medium_enterprise", "large_corporation",
               "startup", "non_profit", "government"}
ContractStatus == {"draft", "negotiating", "active", "completed",
                   "terminated", "disputed"}
ComplianceStatus == {"compliant", "non_compliant", "pending_review",
                     "disputed"}

(***************************************************************************)
(* Arithmetic helpers.                                                     *)
(***************************************************************************)
\* The element of a one-element set.  An intermediate result is bound, and so
\* computed once, by writing  Only({body : x \in {expr}}).
Only(S) == CHOOSE x \in S : TRUE

Abs(x) == IF x < 0 THEN -x ELSE x
Min(a, b) == IF a <= b THEN a ELSE b

RECURSIVE GCD(_, _)
GCD(a, b) == IF b = 0 THEN a ELSE GCD(b, a % b)

\* The float num / den (den > 0), as an exact rational in lowest terms.
Rat(num, den) ==
    LET g == GCD(Abs(num), den)
    IN  [num |-> num \div g, den |-> den \div g]

RatLess(a, b) == a.num * b.den < b.num * a.den

RECURSIVE SumUpTo(_, _)
SumUpTo(s, n) == IF n = 0 THEN 0 ELSE s[n] + SumUpTo(s, n - 1)

\* sum(s)
SumSeq(s) == Only({SumUpTo(v, Len(v)) : v \in {s}})

\* datetime.date(): the calendar day of a tick.
Date(t) == t \div 2

\* timedelta(days=1), the default time step.
OneDay == 2

(***************************************************************************)
(* The process-wide numpy random source: np.random.seed and one draw.      *)
(***************************************************************************)
SeedState(seed) == seed % 4
NextRandom(r) == (r + 1) % 4
DrawBit(r) == NextRandom(r) \div 2

(***************************************************************************)
(* Entities as the engine sees them (typed fields only).                   *)
(***************************************************************************)
ContractRec(id, status, end_date, sb988) ==
    [id |-> id, status |-> status, end_date |-> end_date,
     sb988_compliant |-> sb988]
FreelancerRec(id, rate) == [id |-> id, hourly_rate |-> rate]
ClientRec(id) == [id |-> id]
TransactionRec(id, amount, when) ==
    [id |-> id, amount |-> amount, transaction_date |-> when]

(***************************************************************************)
(* Injected strategies.  A callable is named by what it does when called.  *)
(***************************************************************************)
ScenarioRec(kind, from, until) ==
    [kind |-> kind, active_from |-> from, active_until |-> until,
     applied |-> 0]

\* The engine as one record, so that the phases of step() compose.
Engine ==
    [current_time |-> current_time, freelancers |-> freelancers,
     clients |-> clients, contracts |-> contracts,
     transactions |-> transactions, market_snapshots |-> market_snapshots,
     metrics_collector |-> metrics_collector, scenarios |-> scenarios,
     np_random |-> np_random, raised |-> None, calls |-> <<>>]

Raise(e, who) == [e EXCEPT !.raised = who]
Called(e, what) == [e EXCEPT !.calls = Append(@, what)]

(***************************************************************************)
(* Derived aggregates.                                                     *)
(***************************************************************************)
\* sum(t.amount for t in transactions if t.transaction_date.date() == day)
\* ... if t.transaction_date.date() <= day
VolumeOnUpTo(txs, day) ==
    SumSeq([i \in 1..Len(txs) |->
              IF Date(txs[i].transaction_date) <= day THEN txs[i].amount ELSE 0])

VolumeOn(txs, day) ==
    SumSeq([i \in 1..Len(txs) |->
              IF Date(txs[i].transaction_date) = day THEN txs[i].amount ELSE 0])

_calculate_average_hourly_rate(e) ==
    IF e.freelancers = <<>> THEN Rat(0, 1)
    ELSE Rat(SumSeq([i \in 1..Len(e.freelancers) |->
                       e.freelancers[i].hourly_rate]),
             Len(e.freelancers))

_calculate_compliance_rate_unguarded(e) ==
    IF e.contracts = <<>> THEN Rat(1, 1)
    ELSE Rat(Cardinality({i \in 1..Len(e.contracts) :
                            e.contracts[i].sb988_compliant = "compliant"}),
             Len(e.contracts))

\* ... if c.sb988_compliant.value != "non_compliant"
_calculate_compliance_rate_lenient(e) ==
    IF e.contracts = <<>> THEN Rat(0, 1)
    ELSE Rat(Cardinality({i \in 1..Len(e.contracts) :
                            e.contracts[i].sb988_compliant /= "non_compliant"}),
             Len(e.contracts))

_calculate_compliance_rate(e) ==
    IF e.contracts = <<>> THEN Rat(0, 1)
    ELSE Rat(Cardinality({i \in 1..Len(e.contracts) :
                            e.contracts[i].sb988_compliant = "compliant"}),
             Len(e.contracts))

MarketSnapshot(e) ==
    [timestamp |-> e.current_time,
     total_freelancers |-> Len(e.freelancers),
     total_clients |-> Len(e.clients),
     active_contracts |->
         Cardinality({i \in 1..Len(e.contracts) :
                        e.contracts[i].status = "active"}),
     total_transaction_volume |-> VolumeOn(e.transactions, Date(e.current_time)),
     average_hourly_rate |-> _calculate_average_hourly_rate(e),
     compliance_rate |-> _calculate_compliance_rate(e)]

(***************************************************************************)
(* Phase 1: market-dynamics model (if injected), then the snapshot.        *)
(***************************************************************************)
CallMarketModel(e) ==
    LET e1 == Called(e, <<"market_dynamics_model", e.current_time>>)
    IN  IF market_dynamics_model = "fail" THEN Raise(e1, "market_dynamics_model")
        ELSE e1

_update_market_conditions(e) ==
    Only({IF e1.raised /= None THEN e1
          ELSE Called([e1 EXCEPT !.market_snapshots =
                                     Append(@, MarketSnapshot(e1))],
                      <<"snapshot", e1.current_time>>) :
          e1 \in {IF market_dynamics_model /= None THEN CallMarketModel(e)
                  ELSE e}})

(***************************************************************************)
(* Phase 2: behaviors, once per freelancer and then once per client, in    *)
(* insertion order.  market_state is the last snapshot, or None.           *)
(***************************************************************************)
MarketState(e) ==
    IF e.market_snapshots /= <<>>
    THEN Some(e.market_snapshots[Len(e.market_snapshots)]) ELSE Absent

MarketStateStamp(e) ==
    IF MarketState(e) = Absent THEN Absent
    ELSE Some(MarketState(e)[1].timestamp)

\* One call of the freelancer behavior model, for the i-th freelancer.
CallFreelancerModel(e, i) ==
    Only({CASE freelancer_behavior_model = "fail" ->
                 Raise(e1, "freelancer_behavior_model")
            [] freelancer_behavior_model = "raise_rate" ->
                 [e1 EXCEPT !.freelancers[i].hourly_rate = @ + 10]
            [] OTHER -> e1 :
          e1 \in {Called(e, <<"freelancer_behavior_model",
                              e.freelancers[i].id, MarketStateStamp(e),
                              e.current_time>>)}})

RECURSIVE FreelancerBehaviors(_, _)
FreelancerBehaviors(e, i) ==
    IF i > Len(e.freelancers) \/ e.raised /= None THEN e
    ELSE Only({FreelancerBehaviors(e1, i + 1) :
               e1 \in {CallFreelancerModel(e, i)}})

\* One call of the client behavior model, for the i-th client.
CallClientModel(e, i) ==
    Only({CASE client_behavior_model = "fail" ->
                 Raise(e1, "client_behavior_model")
            [] client_behavior_model = "pay" ->
                 [e1 EXCEPT !.transactions =
                     Append(@, TransactionRec(Len(@) + 1, 10,
                                              e.current_time))]
            [] OTHER -> e1 :
          e1 \in {Called(e, <<"client_behavior_model", e.clients[i].id,
                              MarketStateStamp(e), e.current_time>>)}})

RECURSIVE ClientBehaviors(_, _)
ClientBehaviors(e, i) ==
    IF i > Len(e.clients) \/ e.raised /= None THEN e
    ELSE Only({ClientBehaviors(e1, i + 1) : e1 \in {CallClientModel(e, i)}})

_execute_agent_behaviors(e) ==
    Only({IF e1.raised /= None THEN e1
          ELSE IF client_behavior_model /= None THEN ClientBehaviors(e1, 1)
          ELSE e1 :
          e1 \in {IF freelancer_behavior_model /= None
                  THEN FreelancerBehaviors(e, 1) ELSE e}})

(***************************************************************************)
(* Phase 3: contract lifecycle.                                            *)
(***************************************************************************)
\* self.current_time.date() >= contract.end_date
OverdueInclusive(c, now) ==
    /\ c.end_date /= Absent
    /\ Date(now) >= c.end_date[1]
    /\ c.status = "active"

Overdue(c, now) ==
    /\ c.end_date /= Absent
    /\ Date(now) > c.end_date[1]
    /\ c.status = "active"

\* the test of the status left out
_process_contracts_any_status(e) ==
    Only({Called(e1, <<"_process_contracts", e.current_time, e1.contracts>>) :
          e1 \in {[e EXCEPT !.contracts =
                      [i \in 1..Len(e.contracts) |->
                          IF /\ e.contracts[i].end_date /= Absent
                             /\ Date(e.current_time) > e.contracts[i].end_date[1]
                          THEN [e.contracts[i] EXCEPT !.status = "completed"]
                          ELSE e.contracts[i]]]}})

_process_contracts(e) ==
    Only({Called(e1, <<"_process_contracts", e.current_time, e1.contracts>>) :
          e1 \in {[e EXCEPT !.contracts =
                      [i \in 1..Len(e.contracts) |->
                          IF Overdue(e.contracts[i], e.current_time)
                          THEN [e.contracts[i] EXCEPT !.status = "completed"]
                          ELSE e.contracts[i]]]}})

(***************************************************************************)
(* Phase 4: scenarios, in registration order.                              *)
(***************************************************************************)
is_active(s, now) == s.active_from <= now /\ now <= s.active_until

\* The entity mutation a scenario of each kind makes.
ApplyKind(kind, e) ==
    CASE kind = "comply" ->
           [e EXCEPT !.contracts =
               [i \in 1..Len(e.contracts) |->
                   [e.contracts[i] EXCEPT !.sb988_compliant = "compliant"]]]
      [] kind = "toggle" ->
           [e EXCEPT !.contracts =
               [i \in 1..Len(e.contracts) |->
                   [e.contracts[i] EXCEPT !.sb988_compliant =
                       IF @ = "compliant" THEN "non_compliant"
                       ELSE "compliant"]]]
      [] kind = "reactivate" ->
           [e EXCEPT !.contracts =
               [i \in 1..Len(e.contracts) |->
                   [e.contracts[i] EXCEPT !.status =
                       IF @ = "completed" THEN "active" ELSE @]]]
      [] kind = "random" ->
           [e EXCEPT !.np_random = NextRandom(@),
                     !.contracts =
               [i \in 1..Len(e.contracts) |->
                   [e.contracts[i] EXCEPT !.sb988_compliant =
                       IF DrawBit(e.np_random) = 1 THEN "compliant"
                       ELSE "non_compliant"]]]
      [] OTHER -> e

apply(e, k) ==
    Only({IF e.scenarios[k].kind = "fail" THEN Raise(e1, "apply")
          ELSE [ApplyKind(e.scenarios[k].kind, e1)
                    EXCEPT !.scenarios[k].applied = @ + 1] :
          e1 \in {Called(e, <<"apply", k, e.current_time, e.contracts>>)}})

\* The k-th scenario's turn: is_active, and apply if it is.
\* a scenario applied before is not applied again
ScenarioTurnOnce(e, k) ==
    Only({IF e.scenarios[k].kind = "fail_is_active"
          THEN Raise(e1, "is_active")
          ELSE IF /\ is_active(e.scenarios[k], e.current_time)
                  /\ e.scenarios[k].applied = 0
               THEN apply(e1, k)
          ELSE e1 :
          e1 \in {Called(e, <<"is_active", k, e.current_time>>)}})

ScenarioTurn(e, k) ==
    Only({IF e.scenarios[k].kind = "fail_is_active"
          THEN Raise(e1, "is_active")
          ELSE IF is_active(e.scenarios[k], e.current_time) THEN apply(e1, k)
          ELSE e1 :
          e1 \in {Called(e, <<"is_active", k, e.current_time>>)}})

RECURSIVE ScenariosFrom(_, _)
ScenariosFrom(e, k) ==
    IF k > Len(e.scenarios) \/ e.raised /= None THEN e
    ELSE Only({ScenariosFrom(e1, k + 1) : e1 \in {ScenarioTurn(e, k)}})

_apply_regulatory_scenarios(e) == ScenariosFrom(e, 1)

(***************************************************************************)
(* Phase 5: metrics.                                                       *)
(***************************************************************************)
MetricsCollector == [collected |-> 0, mode |-> "ok"]

collect_step_metrics(e) ==
    Only({IF e.metrics_collector.mode = "fail"
          THEN Raise(e1, "collect_step_metrics")
          ELSE [e1 EXCEPT !.metrics_collector.collected = @ + 1] :
          e1 \in {Called(e, <<"collect_step_metrics", e.current_time,
                              e.contracts, e.transactions>>)}})

\* try: ... except Exception: pass
_collect_step_metrics_guarded(e) ==
    Only({IF e.metrics_collector.mode = "fail" THEN e1
          ELSE [e1 EXCEPT !.metrics_collector.collected = @ + 1] :
          e1 \in {Called(e, <<"collect_step_metrics", e.current_time,
                              e.contracts, e.transactions>>)}})

_collect_step_metrics(e) == collect_step_metrics(e)

(***************************************************************************)
(* step(): the six phases; an exception ends the call where it is raised.  *)
(***************************************************************************)
\* self.current_time += timedelta(days=1)
AdvanceTimeByDay(e) ==
    Called([e EXCEPT !.current_time = @ + OneDay],
           <<"advance", e.current_time>>)

AdvanceTime(e) ==
    Called([e EXCEPT !.current_time = @ + config.time_step],
           <<"advance", e.current_time>>)

\* The engine after phases 1..n of a step() entered in e (a one-element
\* set); a phase is skipped once an exception is on its way out.
After1(e) == {_update_market_conditions(e)}
After2(e) ==
    {IF x.raised /= None THEN x ELSE _execute_agent_behaviors(x) :
        x \in After1(e)}
After3(e) ==
    {IF x.raised /= None THEN x ELSE _process_contracts(x) : x \in After2(e)}
After4(e) ==
    {IF x.raised /= None THEN x ELSE _apply_regulatory_scenarios(x) :
        x \in After3(e)}
After5(e) ==
    {IF x.raised /= None THEN x ELSE _collect_step_metrics(x) :
        x \in After4(e)}

\* self.current_time += self.config.time_step, moved to the top of step()
step_advance_first(e) ==
    Only({x : x \in After5(AdvanceTime(e))})

\* _update_market_conditions() called after the other phases
step_snapshot_last(e) ==
    Only({IF x.raised /= None THEN x ELSE AdvanceTime(x) :
          x \in {IF d.raised /= None THEN d
                 ELSE _update_market_conditions(d) :
                 d \in {IF c.raised /= None THEN c
                        ELSE _collect_step_metrics(c) :
                        c \in {IF b.raised /= None THEN b
                               ELSE _apply_regulatory_scenarios(b) :
                               b \in {IF a.raised /= None THEN a
                                      ELSE _process_contracts(a) :
                                      a \in {_execute_agent_behaviors(e)}}}}}})

step(e) ==
    Only({IF x.raised /= None THEN x ELSE AdvanceTime(x) : x \in After5(e)})

(***************************************************************************)
(* Convergence predicate.                                                  *)
(***************************************************************************)
MinSnapshots == 10
RecentWindow == 10

LCM(a, b) == (a * b) \div GCD(a, b)

\* A common denominator of the first n rationals of rs.
RECURSIVE LCMDenUpTo(_, _)
LCMDenUpTo(rs, n) ==
    IF n = 0 THEN 1
    ELSE Only({LCM(d, rs[n].den) : d \in {LCMDenUpTo(rs, n - 1)}})

LCMDen(rs) == LCMDenUpTo(rs, Len(rs))

\* np.var: the mean of the squared deviations from the mean.
VarScaled(X, D) ==
    Only({Rat(SumSeq([i \in 1..Len(X) |->
                        (Len(X) * X[i] - S) * (Len(X) * X[i] - S)]),
              Len(X) * Len(X) * Len(X) * D * D) :
          S \in {SumSeq(X)}})

Scaled(rs, D) == [i \in 1..Len(rs) |-> rs[i].num * (D \div rs[i].den)]

Var(rs) ==
    Only({Only({VarScaled(X, D) : X \in {Scaled(rs, D)}}) :
          D \in {LCMDen(rs)}})

\* lst[-k:]
LastKWhole(lst, k) == lst

LastK(lst, k) ==
    IF Len(lst) <= k THEN lst ELSE SubSeq(lst, Len(lst) - k + 1, Len(lst))

ComplianceRates(snapshots) ==
    [i \in 1..Len(snapshots) |-> snapshots[i].compliance_rate]

_check_convergence(snapshots) ==
    IF Len(snapshots) < MinSnapshots THEN FALSE
    ELSE \E recent_snapshots \in {LastK(snapshots, RecentWindow)} :
           \E variance \in {Var(ComplianceRates(recent_snapshots))} :
             RatLess(variance, config.convergence_threshold)

(***************************************************************************)
(* Results aggregate.                                                      *)
(***************************************************************************)
_generate_results_planned(e) ==
    [config |-> config,
     execution_summary |->
         [start_time |-> config.start_date,
          end_time |-> config.end_date,
          total_steps |-> Len(e.market_snapshots),
          final_population |->
              [freelancers |-> Len(e.freelancers),
               clients |-> Len(e.clients),
               contracts |-> Len(e.contracts),
               transactions |-> Len(e.transactions)]],
     market_evolution |-> e.market_snapshots,
     metrics |-> e.metrics_collector.collected,
     scenario_results |->
         [k \in 1..Len(e.scenarios) |-> e.scenarios[k].applied],
     entities |->
         [freelancers |-> e.freelancers, clients |-> e.clients,
          contracts |-> e.contracts, transactions |-> e.transactions]]

_generate_results(e) ==
    [config |-> config,
     execution_summary |->
         [start_time |-> config.start_date,
          end_time |-> e.current_time,
          total_steps |-> Len(e.market_snapshots),
          final_population |->
              [freelancers |-> Len(e.freelancers),
               clients |-> Len(e.clients),
               contracts |-> Len(e.contracts),
               transactions |-> Len(e.transactions)]],
     market_evolution |-> e.market_snapshots,
     metrics |-> e.metrics_collector.collected,
     scenario_results |->
         [k \in 1..Len(e.scenarios) |-> e.scenarios[k].applied],
     entities |->
         [freelancers |-> e.freelancers, clients |-> e.clients,
          contracts |-> e.contracts, transactions |-> e.transactions]]

(***************************************************************************)
(* Construction: SimulationConfig and SimulationEngine.__init__.           *)
(***************************************************************************)
SimulationConfig(start, end, ts, seed, maxit, thr) ==
    [start_date |-> start, end_date |-> end, time_step |-> ts,
     random_seed |-> seed, max_iterations |-> maxit,
     convergence_threshold |-> thr]

\* Python truth value of config.random_seed.
Truthy(seed) == seed /= Absent /\ seed[1] /= 0

\* The random source after __init__, given its state before.
SeededBy(seed, ambient) ==
    IF Truthy(seed) THEN SeedState(seed[1]) ELSE ambient

EngineInit(cfg, ambient) ==
    /\ config = cfg
    /\ current_time = cfg.start_date
    /\ freelancers = <<>>
    /\ clients = <<>>
    /\ contracts = <<>>
    /\ transactions = <<>>
    /\ market_snapshots = <<>>
    /\ metrics_collector = MetricsCollector
    /\ scenarios = <<>>
    /\ freelancer_behavior_model = None
    /\ client_behavior_model = None
    /\ market_dynamics_model = None
    /\ np_random = SeededBy(cfg.random_seed, ambient)

CallerInit ==
    /\ pc = "idle"
    /\ iteration = 0
    /\ results = Absent
    /\ outcome = "none"
    /\ last_step = [raised |-> None, calls |-> <<>>, before |-> Engine,
                    in_run |-> FALSE]
    /\ run_entry = [time |-> current_time, snapshots |-> 0, stop |-> None]

\* Inputs tried.
StartDate == 0
DefaultThreshold == Rat(1, 1000)
Thresholds == {Rat(0, 1), DefaultThreshold, Rat(1, 4)}

StepConfigs ==
    {SimulationConfig(StartDate, 2 * OneDay, ts, Absent, 3, DefaultThreshold) :
        ts \in {1, OneDay}}

RunConfigs ==
    {c \in {SimulationConfig(StartDate, d * OneDay, ts, Absent, mi, thr) :
              d \in {0, 9, MaxEndDay}, ts \in {-1, 0, 1, OneDay},
              mi \in {2, MaxIterCap, 1000}, thr \in Thresholds} :
        c.time_step > 0 \/ c.max_iterations <= MaxIterCap}

\* Populations the caller may fill the engine with before the first step.
Populations ==
    {[contracts |-> <<ContractRec(1, "active", Some(0), "pending_review")>>,
      freelancers |-> <<FreelancerRec(1, 40)>>,
      clients |-> <<ClientRec(1)>>,
      transactions |-> <<TransactionRec(1, 100, 1)>>],
     [contracts |-> <<ContractRec(1, "active", Absent, "compliant"),
                      ContractRec(2, "completed", Some(1), "compliant")>>,
      freelancers |-> <<FreelancerRec(1, 40), FreelancerRec(2, 65)>>,
      clients |-> <<ClientRec(1), ClientRec(2)>>,
      transactions |-> <<TransactionRec(1, 100, 1),
                         TransactionRec(2, 250, 2)>>],
     [contracts |-> <<ContractRec(1, "draft", Some(0), "non_compliant"),
                      ContractRec(2, "active", Some(1), "compliant")>>,
      freelancers |-> <<>>,
      clients |-> <<ClientRec(1)>>,
      transactions |-> <<>>],
     [contracts |-> <<ContractRec(1, "draft", Some(0), "disputed"),
                      ContractRec(2, "negotiating", Some(0), "compliant"),
                      ContractRec(3, "active", Some(1), "non_compliant"),
                      ContractRec(4, "completed", Some(0), "pending_review"),
                      ContractRec(5, "terminated", Some(0), "compliant"),
                      ContractRec(6, "disputed", Absent, "disputed")>>,
      freelancers |-> <<FreelancerRec(1, 55)>>,
      clients |-> <<ClientRec(1), ClientRec(2)>>,
      transactions |-> <<TransactionRec(1, 100, 0), TransactionRec(2, 30, 1),
                         TransactionRec(3, 250, 2), TransactionRec(4, 7, 5)>>]}

RunPopulations ==
    {[contracts |-> <<ContractRec(1, "active", Some(0), "pending_review")>>,
      freelancers |-> <<>>, clients |-> <<>>, transactions |-> <<>>]}

Always == <<0, 100000>>
ScenarioChoices ==
    {ScenarioRec(k, Always[1], Always[2]) :
        k \in {"comply", "toggle", "fail_is_active"}}
    \cup {ScenarioRec("reactivate", 3, 4), ScenarioRec("fail", 2, 3)}

RunScenarios ==
    {ScenarioRec(k, Always[1], Always[2]) : k \in {"comply", "toggle"}}

ModelChoices ==
    {<<"observe", "observe", "observe">>, <<"raise_rate", None, None>>,
     <<"fail", None, None>>, <<"raise_rate", "fail", None>>,
     <<None, None, "fail">>, <<None, "pay", None>>}

Init ==
    /\ \E cfg \in StepConfigs : EngineInit(cfg, 0)
    /\ CallerInit
    /\ budget = [populate |-> 1, models |-> 1, collector |-> 1,
                 scenarios |-> MaxScenarios, steps |-> MaxDirectSteps,
                 runs |-> 1]
    /\ instances = <<>>
    /\ uuid_issued = 0
    /\ heap = <<>>
    /\ replay = Absent

InitRun ==
    /\ \E cfg \in RunConfigs : EngineInit(cfg, 0)
    /\ CallerInit
    /\ budget = [populate |-> 1, models |-> 0, collector |-> 0,
                 scenarios |-> 1, steps |-> MaxDirectSteps, runs |-> MaxRuns]
    /\ instances = <<>>
    /\ uuid_issued = 0
    /\ heap = <<>>
    /\ replay = Absent

(***************************************************************************)
(* The caller populates the engine and injects strategies before the       *)
(* first step.                                                             *)
(***************************************************************************)
CanSetUp ==
    /\ pc = "idle"
    /\ outcome = "none"

SetUpFrame ==
    UNCHANGED <<config, current_time, market_snapshots, np_random, pc,
                iteration, results, outcome, last_step, run_entry,
                instances, uuid_issued, heap, replay>>

\* The caller fills the entity mappings and the transaction log.
Populate(p) ==
    /\ CanSetUp
    /\ budget.populate > 0
    /\ contracts' = p.contracts
    /\ freelancers' = p.freelancers
    /\ clients' = p.clients
    /\ transactions' = p.transactions
    /\ budget' = [budget EXCEPT !.populate = @ - 1]
    /\ SetUpFrame
    /\ UNCHANGED <<metrics_collector, scenarios, model_vars>>

add_scenario(scenario) ==
    /\ CanSetUp
    /\ budget.scenarios > 0
    /\ scenarios' = Append(scenarios, scenario)
    /\ budget' = [budget EXCEPT !.scenarios = @ - 1]
    /\ SetUpFrame
    /\ UNCHANGED <<freelancers, clients, contracts, transactions,
                   metrics_collector, model_vars>>

set_behavioral_models(freelancer_model, client_model, market_model) ==
    /\ CanSetUp
    /\ budget.models > 0
    /\ freelancer_behavior_model' =
           IF freelancer_model /= None THEN freelancer_model
           ELSE freelancer_behavior_model
    /\ client_behavior_model' =
           IF client_model /= None THEN client_model
           ELSE client_behavior_model
    /\ market_dynamics_model' =
           IF market_model /= None THEN market_model
           ELSE market_dynamics_model
    /\ budget' = [budget EXCEPT !.models = @ - 1]
    /\ SetUpFrame
    /\ UNCHANGED <<freelancers, clients, contracts, transactions,
                   metrics_collector, scenarios>>

\* engine.metrics_collector = a collector whose collect_step_metrics raises
SetMetricsCollector ==
    /\ CanSetUp
    /\ budget.collector > 0
    /\ metrics_collector' = [metrics_collector EXCEPT !.mode = "fail"]
    /\ budget' = [budget EXCEPT !.collector = @ - 1]
    /\ SetUpFrame
    /\ UNCHANGED <<freelancers, clients, contracts, transactions, scenarios,
                   model_vars>>

(***************************************************************************)
(* step() and run().                                                       *)
(***************************************************************************)
Commit(e) ==
    /\ current_time' = e.current_time
    /\ freelancers' = e.freelancers
    /\ clients' = e.clients
    /\ contracts' = e.contracts
    /\ transactions' = e.transactions
    /\ market_snapshots' = e.market_snapshots
    /\ metrics_collector' = e.metrics_collector
    /\ scenarios' = e.scenarios
    /\ np_random' = e.np_random
    /\ last_step' = [raised |-> e.raised, calls |-> e.calls, before |-> Engine,
                     in_run |-> pc /= "idle"]

\* A step() call made by the caller.
Step ==
    /\ pc = "idle"
    /\ budget.steps > 0
    /\ \E e \in {step(Engine)} :
           /\ Commit(e)
           /\ outcome' = IF e.raised /= None THEN "raised" ELSE "stepped"
    /\ budget' = [budget EXCEPT !.steps = @ - 1]
    /\ UNCHANGED <<config, model_vars, pc, iteration, results, run_entry,
                   instances, uuid_issued, heap, replay>>

LoopConditionExclusive ==
    /\ current_time < config.end_date
    /\ iteration < config.max_iterations

LoopConditionUncapped ==
    /\ current_time <= config.end_date

LoopCondition ==
    /\ current_time <= config.end_date
    /\ iteration < config.max_iterations

RunBegin ==
    /\ pc = "idle"
    /\ budget.runs > 0
    /\ pc' = "loop"
    /\ iteration' = 0
    /\ outcome' = "running"
    /\ run_entry' = [time |-> current_time,
                     snapshots |-> Len(market_snapshots), stop |-> None]
    /\ budget' = [budget EXCEPT !.runs = @ - 1]
    /\ UNCHANGED <<config, engine_vars, scenarios, model_vars, np_random,
                   results, last_step, instances, uuid_issued, heap, replay>>

\* One pass of the loop body: step(), iteration += 1, convergence check.
\* the loop body without the convergence check
RunIterUnchecked ==
    /\ pc = "loop"
    /\ LoopCondition
    /\ \E e \in {step(Engine)} :
           /\ Commit(e)
           /\ IF e.raised /= None
              THEN /\ pc' = "idle"
                   /\ outcome' = "raised"
                   /\ iteration' = iteration
                   /\ run_entry' = [run_entry EXCEPT !.stop = "raised"]
              ELSE /\ iteration' = iteration + 1
                   /\ outcome' = outcome
                   /\ pc' = "loop"
                   /\ run_entry' = run_entry
    /\ UNCHANGED <<config, model_vars, results, budget, instances,
                   uuid_issued, heap, replay>>

RunIter ==
    /\ pc = "loop"
    /\ LoopCondition
    /\ \E e \in {step(Engine)} :
           /\ Commit(e)
           /\ IF e.raised /= None
              THEN /\ pc' = "idle"
                   /\ outcome' = "raised"
                   /\ iteration' = iteration
                   /\ run_entry' = [run_entry EXCEPT !.stop = "raised"]
              ELSE /\ iteration' = iteration + 1
                   /\ outcome' = outcome
                   /\ IF _check_convergence(e.market_snapshots)
                      THEN /\ pc' = "break"
                           /\ run_entry' = [run_entry EXCEPT !.stop = "converged"]
                      ELSE /\ pc' = "loop"
                           /\ run_entry' = run_entry
    /\ UNCHANGED <<config, model_vars, results, budget, instances,
                   uuid_issued, heap, replay>>

RunReturn ==
    /\ pc = "break" \/ (pc = "loop" /\ ~LoopCondition)
    /\ pc' = "idle"
    /\ outcome' = "returned"
    /\ results' = Some(_generate_results(Engine))
    /\ run_entry' =
           IF pc = "break" THEN run_entry
           ELSE [run_entry EXCEPT !.stop =
                    IF current_time > config.end_date THEN "end_date"
                    ELSE "max_iterations"]
    /\ UNCHANGED <<config, engine_vars, scenarios, model_vars, np_random,
                   iteration, last_step, budget, instances, uuid_issued, heap,
                   replay>>

SetUp ==
    \/ \E p \in Populations : Populate(p)
    \/ \E s \in ScenarioChoices : add_scenario(s)
    \/ \E m \in ModelChoices : set_behavioral_models(m[1], m[2], m[3])
    \/ SetMetricsCollector

Next ==
    \/ SetUp
    \/ Step
    \/ RunBegin
    \/ RunIter
    \/ RunReturn

Spec == Init /\ [][Next]_vars

RunSetUp ==
    \/ \E p \in RunPopulations : Populate(p)
    \/ \E s \in RunScenarios : add_scenario(s)

NextRun ==
    \/ RunSetUp
    \/ Step
    \/ RunBegin
    \/ RunIter
    \/ RunReturn

SpecRun == InitRun /\ [][NextRun]_vars

\* run() is one thread of control: once entered, it keeps executing.
FairRun == SpecRun /\ WF_vars(RunIter) /\ WF_vars(RunReturn)

(***************************************************************************)
(* Properties of run().                                                    *)
(***************************************************************************)
Returned == outcome = "returned"
FreshRun ==
    run_entry.snapshots = 0 /\ run_entry.time = config.start_date

\* The instants start + k * time_step that are not after end_date.
Instants(cfg) ==
    IF cfg.end_date < cfg.start_date THEN 0
    ELSE (cfg.end_date - cfg.start_date) \div cfg.time_step + 1

TenDayConfig ==
    /\ config.start_date = 0
    /\ config.end_date = 9 * OneDay
    /\ config.time_step = OneDay
    /\ config.max_iterations = 1000

\* C1: run() on a fresh engine with start 2024-01-01, end 2024-01-10, a
\* one-day step and max_iterations 1000 executes exactly 10 steps and ends
\* with current_time 2024-01-11; for any positive time step, a run on a
\* fresh engine that is not stopped by convergence executes
\* min(max_iterations, instants up to end_date) steps and ends at
\* start + steps * time_step.
C1_RunStepCount ==
    (Returned /\ FreshRun) =>
        /\ TenDayConfig => (iteration = 10 /\ current_time = 10 * OneDay)
        /\ (config.time_step > 0 /\ run_entry.stop /= "converged") =>
               /\ iteration = Min(config.max_iterations, Instants(config))
               /\ current_time =
                      config.start_date + iteration * config.time_step

C1_Witness ==
    /\ Returned /\ FreshRun /\ TenDayConfig
    /\ run_entry.stop = "end_date"
    /\ iteration = 10

\* C6: run() terminates: every run() that was entered ends, it never
\* executes more than max_iterations steps (also with a zero or negative
\* time step), and a run stopped by the iteration cap returns a results
\* aggregate with the keys of every other completion.
ResultKeys ==
    {"config", "execution_summary", "market_evolution", "metrics",
     "scenario_results", "entities"}
SummaryKeys == {"start_time", "end_time", "total_steps", "final_population"}

ResultsShape(r) ==
    /\ DOMAIN r = ResultKeys
    /\ DOMAIN r.execution_summary = SummaryKeys

C6_RunTerminates ==
    /\ [](iteration <= config.max_iterations)
    /\ [](Returned => results /= Absent /\ ResultsShape(results[1]))
    /\ [](pc /= "idle" => Len(market_snapshots) = run_entry.snapshots + iteration)
    /\ (pc /= "idle") ~> (pc = "idle" /\ Returned)

C6_Witness ==
    /\ Returned
    /\ config.time_step <= 0
    /\ run_entry.stop = "max_iterations"
    /\ iteration = config.max_iterations
    /\ ResultsShape(results[1])

\* C10 (as claimed): the summary's total_steps is the number of steps this
\* run() executed, whatever was called on the engine before.
C10_TotalStepsOfThisRun ==
    Returned =>
        /\ results[1].execution_summary.total_steps = iteration
        /\ results[1].execution_summary.end_time = current_time
        /\ Len(results[1].market_evolution) = iteration

\* C10 (amended): total_steps is the length of the whole snapshot log, the
\* snapshots present when run() was entered plus one per step of this run;
\* it is the number of steps of this run on a fresh engine; end_time is the
\* current time when the loop stopped and market_evolution is the log.
C10_TotalStepsOfLog ==
    Returned =>
        /\ results[1].execution_summary.total_steps =
               run_entry.snapshots + iteration
        /\ FreshRun => results[1].execution_summary.total_steps = iteration
        /\ results[1].execution_summary.end_time = current_time
        /\ results[1].market_evolution = market_snapshots
        /\ Len(results[1].market_evolution) = run_entry.snapshots + iteration
        /\ run_entry.stop \in {"end_date", "max_iterations", "converged"}

C10_Witness ==
    /\ Returned
    /\ run_entry.snapshots > 0
    /\ iteration > 0
    /\ results[1].execution_summary.total_steps = run_entry.snapshots + iteration

(***************************************************************************)
(* Properties of step().                                                   *)
(***************************************************************************)
Stepped == last_step.calls /= <<>>
Before == last_step.before
LastSnapshot == market_snapshots[Len(market_snapshots)]
Zero == [num |-> 0, den |-> 1]

NoStrategies ==
    /\ scenarios = <<>>
    /\ freelancer_behavior_model = None
    /\ client_behavior_model = None
    /\ market_dynamics_model = None

\* C4: with no scenario and no behavioral model, every step() call appends
\* exactly one snapshot to the log; its compliance rate is 0 when there is
\* no contract and its average hourly rate is 0 when there is no freelancer.
C4_OneSnapshotPerStep ==
    (Stepped /\ NoStrategies) =>
        /\ Len(market_snapshots) = Len(Before.market_snapshots) + 1
        /\ SubSeq(market_snapshots, 1, Len(Before.market_snapshots)) =
               Before.market_snapshots
        /\ LastSnapshot.timestamp = Before.current_time
        /\ Before.contracts = <<>> => LastSnapshot.compliance_rate = Zero
        /\ Before.freelancers = <<>> => LastSnapshot.average_hourly_rate = Zero

C4_Witness ==
    /\ Stepped /\ NoStrategies
    /\ contracts = <<>> /\ freelancers = <<>>
    /\ Len(market_snapshots) = 2
    /\ LastSnapshot.compliance_rate = Zero
    /\ LastSnapshot.average_hourly_rate = Zero

\* C2: a contract that is COMPLETED when step() is entered is COMPLETED
\* when that step() ends, whatever scenarios and models are registered.
C2_CompletedStaysCompleted ==
    Stepped =>
        \A i \in 1..Len(contracts) :
            Before.contracts[i].status = "completed" =>
                contracts[i].status = "completed"

\* A call of the last step() whose callee raises.
CallFails(c) ==
    \/ c[1] = "market_dynamics_model" /\ market_dynamics_model = "fail"
    \/ c[1] = "freelancer_behavior_model" /\ freelancer_behavior_model = "fail"
    \/ c[1] = "client_behavior_model" /\ client_behavior_model = "fail"
    \/ c[1] = "is_active" /\ scenarios[c[2]].kind = "fail_is_active"
    \/ c[1] = "apply" /\ scenarios[c[2]].kind = "fail"
    \/ c[1] = "collect_step_metrics" /\ metrics_collector.mode = "fail"

StepFailed ==
    \E i \in 1..Len(last_step.calls) : CallFails(last_step.calls[i])

\* The phase of step() a call belongs to.
PhaseOf(c) ==
    CASE c[1] \in {"market_dynamics_model", "snapshot"} -> 1
      [] c[1] \in {"freelancer_behavior_model", "client_behavior_model"} -> 2
      [] c[1] = "_process_contracts" -> 3
      [] c[1] \in {"is_active", "apply"} -> 4
      [] c[1] = "collect_step_metrics" -> 5
      [] OTHER -> 6

Applied(kind) ==
    \E i \in 1..Len(last_step.calls) :
        /\ last_step.calls[i][1] = "apply"
        /\ scenarios[last_step.calls[i][2]].kind = kind

\* C7: a failing strategy ends step() (and run()) at the failing call: the
\* failing call is the last call of the step and is made once, the
\* exception reaches the caller, time is not advanced and run() returns no
\* result; what earlier phases of the step did stays: the snapshot appended
\* in phase 1, the contracts completed in phase 3, the mutations and the
\* apply counts of the scenarios applied before the failing one.
C7_FailurePropagates ==
    StepFailed =>
        LET calls == last_step.calls
            n == Len(calls)
            failing == calls[n]
        IN  /\ CallFails(failing)
            /\ \A i \in 1..(n - 1) : ~CallFails(calls[i])
            /\ last_step.raised = failing[1]
            /\ current_time = Before.current_time
            /\ metrics_collector = Before.metrics_collector
            /\ last_step.in_run =>
                   /\ pc = "idle" /\ outcome = "raised"
                   /\ results = Absent
            /\ IF failing[1] = "market_dynamics_model"
               THEN market_snapshots = Before.market_snapshots
               ELSE /\ Len(market_snapshots) = Len(Before.market_snapshots) + 1
                    /\ LastSnapshot.timestamp = Before.current_time
            /\ IF PhaseOf(failing) < 4
               THEN contracts = Before.contracts
               ELSE \A i \in 1..Len(contracts) :
                       /\ (Overdue(Before.contracts[i], Before.current_time)
                             /\ ~Applied("reactivate")) =>
                              contracts[i].status = "completed"
                       /\ (Applied("comply") /\ ~Applied("toggle")) =>
                              contracts[i].sb988_compliant = "compliant"
            /\ \A k \in 1..Len(scenarios) :
                   scenarios[k].applied = Before.scenarios[k].applied +
                       (IF \E i \in 1..(n - 1) :
                               calls[i][1] = "apply" /\ calls[i][2] = k
                        THEN 1 ELSE 0)

\* A run() in which the second scenario fails after the first was applied
\* to an overdue contract.
C7_Witness ==
    /\ StepFailed
    /\ last_step.in_run
    /\ last_step.raised = "apply"
    /\ Applied("comply")
    /\ iteration > 0
    /\ \E i \in 1..Len(contracts) :
           /\ Before.contracts[i].status = "active"
           /\ contracts[i].status = "completed"
           /\ contracts[i].sb988_compliant = "compliant"

(***************************************************************************)
(* The convergence predicate on its own: snapshot logs with every          *)
(* sequence of compliance rates from ConvRates, under each threshold.      *)
(***************************************************************************)
ConvRates == {Rat(0, 1), Rat(1, 2), Rat(1, 1)}
ConvThresholds == {DefaultThreshold, Rat(1, 5), Rat(1, 4)}

InitConv ==
    /\ \E thr \in ConvThresholds :
           EngineInit(SimulationConfig(StartDate, MaxSnapshotLog * OneDay,
                                       OneDay, Absent, 1000, thr), 0)
    /\ CallerInit
    /\ budget = [populate |-> 0, models |-> 0, collector |-> 0,
                 scenarios |-> 0, steps |-> 0, runs |-> 0]
    /\ instances = <<>>
    /\ uuid_issued = 0
    /\ heap = <<>>
    /\ replay = Absent

\* A snapshot with the given compliance rate is appended and the predicate
\* is evaluated, as run() does after each step.  A log holds at most two
\* distinct rates.
ObserveSnapshot(rate) ==
    /\ Len(market_snapshots) < MaxSnapshotLog
    /\ Cardinality({rate} \cup {market_snapshots[i].compliance_rate :
                                  i \in 1..Len(market_snapshots)}) <= 2
    /\ market_snapshots' =
           Append(market_snapshots,
                  [MarketSnapshot(Engine) EXCEPT !.compliance_rate = rate])
    /\ current_time' = current_time + config.time_step
    /\ outcome' = IF _check_convergence(market_snapshots')
                  THEN "converged" ELSE "open"
    /\ UNCHANGED <<config, freelancers, clients, contracts, transactions,
                   metrics_collector, scenarios, model_vars, np_random, pc,
                   iteration, results, last_step, run_entry, budget,
                   instances, uuid_issued, heap, replay>>

NextConv == \E rate \in ConvRates : ObserveSnapshot(rate)

SpecConv == InitConv /\ [][NextConv]_vars

\* The rates of the 10 most recent snapshots, in halves.
RecentHalves ==
    [i \in 1..10 |->
        (2 * market_snapshots[Len(market_snapshots) - 10 + i]
                 .compliance_rate.num)
        \div market_snapshots[Len(market_snapshots) - 10 + i]
                 .compliance_rate.den]

SumSquares(xs) == SumSeq([i \in 1..Len(xs) |-> xs[i] * xs[i]])

\* E[x^2] - E[x]^2 < threshold, for ten values given in halves.
VarianceBelow(halves, thr) ==
    (10 * SumSquares(halves) - SumSeq(halves) * SumSeq(halves)) * thr.den
        < 400 * thr.num

IdNone == [is |-> "None", text |-> 0]
IdStr(n) == [is |-> "str", text |-> n]
uuid4(issued) == [is |-> "uuid4", text |-> issued + 1]

\* Python truth value of an id: None and "" are false.
Falsy(id) == id = IdNone \/ id = IdStr(0)

__post_init__shared(id, issued) == IF Falsy(id) THEN uuid4(0) ELSE id

\* if not self.id: self.id = str(uuid.uuid4())
__post_init__(id, issued) == IF Falsy(id) THEN uuid4(issued) ELSE id

\* The generated constructors store every argument as given.
Freelancer(id, freelancer_type, issued) ==
    [class |-> "Freelancer", id |-> __post_init__(id, issued),
     freelancer_type |-> freelancer_type]

Client(id, client_type, issued) ==
    [class |-> "Client", id |-> __post_init__(id, issued),
     client_type |-> client_type]

\* The list objects __post_init__ makes for the list arguments that are
\* None: each `[]` is a new object, referred to by the next free reference.
NoneBefore(lists, k) == Cardinality({j \in 1..(k - 1) : lists[j] = Absent})

ListFieldShared(lists, k, allocated) ==
    IF lists[k] = Absent THEN allocated + 1 ELSE lists[k][1]

\* if self.<field> is None: self.<field> = []
ListField(lists, k, allocated) ==
    IF lists[k] = Absent THEN allocated + NoneBefore(lists, k) + 1
    ELSE lists[k][1]

\* lists = <<deliverables, milestones, compliance_requirements>> as passed
\* (None or a reference to a list of the caller's).
Contract(id, status, sb988_compliant, lists, issued, allocated) ==
    [class |-> "Contract", id |-> __post_init__(id, issued),
     status |-> status, sb988_compliant |-> sb988_compliant,
     deliverables |-> ListField(lists, 1, allocated),
     milestones |-> ListField(lists, 2, allocated),
     compliance_requirements |-> ListField(lists, 3, allocated)]

Transaction(id, status, issued) ==
    [class |-> "Transaction", id |-> __post_init__(id, issued),
     status |-> status]

\* Arguments tried: ids absent, empty and supplied; enum-typed fields with
\* a member of the enumeration and with a value outside it.
NoLists == <<Absent, Absent, Absent>>
IdArgs == {IdNone, IdStr(0), IdStr(1)}
FreelancerTypeArgs == {"consultant", "astronaut"}
ClientTypeArgs == {"startup", "household"}
StatusArgs == {<<"active", "compliant">>, <<"archived", "compliant">>,
               <<"draft", "unknown">>}

InitEntities ==
    /\ EngineInit(SimulationConfig(StartDate, OneDay, OneDay, Absent, 1000,
                                   DefaultThreshold), 0)
    /\ CallerInit
    /\ budget = [populate |-> 0, models |-> 0, collector |-> 0,
                 scenarios |-> 0, steps |-> 0, runs |-> 0]
    /\ instances = <<>>
    /\ uuid_issued = 0
    /\ heap = <<>>
    /\ replay = Absent

\* One constructor call: the new object, and the uuid4 draw if it made one.
Construct(entity, id, lists) ==
    /\ Len(instances) < MaxInstances
    /\ instances' = Append(instances, [entity |-> entity, id_arg |-> id,
                                       list_args |-> lists])
    /\ uuid_issued' = IF Falsy(id) THEN uuid_issued + 1 ELSE uuid_issued
    /\ heap' = heap \o [k \in 1..NoneBefore(lists, Len(lists) + 1) |-> <<>>]
    /\ UNCHANGED <<config, engine_vars, scenarios, model_vars, np_random, pc,
                   iteration, results, outcome, last_step, run_entry, budget,
                   replay>>

NewFreelancer(id, freelancer_type) ==
    Construct(Freelancer(id, freelancer_type, uuid_issued), id, <<>>)

NewClient(id, client_type) ==
    Construct(Client(id, client_type, uuid_issued), id, <<>>)

NewContract(id, status, sb988_compliant, lists) ==
    Construct(Contract(id, status, sb988_compliant, lists, uuid_issued,
                       Len(heap)),
              id, lists)

NewTransaction(id) ==
    Construct(Transaction(id, "pending", uuid_issued), id, <<>>)

NextEntities ==
    \/ \E id \in IdArgs, t \in FreelancerTypeArgs : NewFreelancer(id, t)
    \/ \E id \in IdArgs, t \in ClientTypeArgs : NewClient(id, t)
    \/ \E id \in IdArgs, s \in StatusArgs :
           NewContract(id, s[1], s[2], NoLists)
    \/ \E id \in IdArgs : NewTransaction(id)

SpecEntities == InitEntities /\ [][NextEntities]_vars

\* The enum-typed fields of an entity all hold members of their enumeration.
EnumFieldsValid(x) ==
    /\ x.class = "Freelancer" => x.freelancer_type \in FreelancerType
    /\ x.class = "Client" => x.client_type \in ClientType
    /\ x.class = "Contract" => /\ x.status \in ContractStatus
                               /\ x.sb988_compliant \in ComplianceStatus

\* C8 (as stated): no constructed Freelancer, Client or Contract holds a
\* value outside the enumeration in an enum-typed field; construction with
\* such a value fails instead of producing an entity.
C8_EnumFieldsClosed ==
    \A i \in 1..Len(instances) : EnumFieldsValid(instances[i].entity)

\* C9: an entity constructed with an absent or empty id holds a generated
\* id, an entity constructed with an id holds that id, and no two entities
\* constructed without an id hold the same id.
C9_IdsAssigned ==
    /\ \A i \in 1..Len(instances) :
           IF Falsy(instances[i].id_arg)
           THEN /\ ~Falsy(instances[i].entity.id)
                /\ instances[i].entity.id.is = "uuid4"
           ELSE instances[i].entity.id = instances[i].id_arg
    /\ \A i, j \in 1..Len(instances) :
           (i /= j /\ Falsy(instances[i].id_arg)
                   /\ Falsy(instances[j].id_arg)) =>
               instances[i].entity.id /= instances[j].entity.id

\* One entity built with None, one with "", one with a supplied id, of
\* three different classes.
C9_Witness ==
    /\ Len(instances) = 3
    /\ instances[1].id_arg = IdNone /\ instances[1].entity.class = "Contract"
    /\ instances[2].id_arg = IdStr(1)
    /\ instances[2].entity.class = "Transaction"
    /\ instances[3].id_arg = IdStr(0)
    /\ instances[3].entity.class = "Freelancer"
    /\ instances[3].entity.id /= instances[1].entity.id

(***************************************************************************)
(* Two runs of the same configuration: the engine is constructed, set up   *)
(* and run, then constructed again in the same process with the same       *)
(* configuration and the same strategies, and run again.                   *)
(***************************************************************************)
Seeds == {Absent, Some(0), Some(1), Some(2)}
AmbientStates == 0..3
DetPopulation ==
    [contracts |-> <<ContractRec(1, "active", Absent, "pending_review")>>,
     freelancers |-> <<>>, clients |-> <<>>, transactions |-> <<>>]
DetScenarios ==
    {ScenarioRec(k, Always[1], Always[2]) : k \in {"random", "toggle"}}

InitDet ==
    /\ \E seed \in Seeds, ambient \in AmbientStates :
           EngineInit(SimulationConfig(StartDate, 2 * OneDay, OneDay, seed,
                                       1000, DefaultThreshold), ambient)
    /\ CallerInit
    /\ budget = [populate |-> 1, models |-> 0, collector |-> 0,
                 scenarios |-> 1, steps |-> 0, runs |-> 1]
    /\ instances = <<>>
    /\ uuid_issued = 0
    /\ heap = <<>>
    /\ replay = Absent

\* After the first run returned: its outcome is kept, and a second engine
\* is constructed from the same configuration, filled with the same
\* population and given the same scenarios.
Reconstruct ==
    /\ pc = "idle"
    /\ outcome = "returned"
    /\ replay = Absent
    /\ replay' = Some([market_evolution |-> results[1].market_evolution,
                       entities |-> results[1].entities])
    /\ current_time' = config.start_date
    /\ freelancers' = <<>>
    /\ clients' = <<>>
    /\ contracts' = IF budget.populate = 0 THEN DetPopulation.contracts
                    ELSE <<>>
    /\ transactions' = <<>>
    /\ market_snapshots' = <<>>
    /\ metrics_collector' = MetricsCollector
    /\ scenarios' = [k \in 1..Len(scenarios) |->
                        [scenarios[k] EXCEPT !.applied = 0]]
    /\ np_random' = SeededBy(config.random_seed, np_random)
    /\ iteration' = 0
    /\ results' = Absent
    /\ outcome' = "rebuilt"
    /\ budget' = [budget EXCEPT !.populate = 0, !.scenarios = 0, !.runs = 1]
    /\ UNCHANGED <<config, model_vars, pc, last_step, run_entry, instances,
                   uuid_issued, heap>>

NextDet ==
    \/ Populate(DetPopulation)
    \/ \E s \in DetScenarios : add_scenario(s)
    \/ RunBegin
    \/ RunIter
    \/ RunReturn
    \/ Reconstruct

SpecDet == InitDet /\ [][NextDet]_vars

SecondRunReturned == replay /= Absent /\ outcome = "returned"

\* C5 (as stated): for every configured seed, the second run's snapshot
\* sequence and final entity states equal the first run's.
C5_SeededRunsAgree ==
    (SecondRunReturned /\ config.random_seed /= Absent) =>
        /\ results[1].market_evolution = replay[1].market_evolution
        /\ results[1].entities = replay[1].entities

\* The same, for the seeds that the constructor's test takes as set.
C5_TruthySeedRunsAgree ==
    (SecondRunReturned /\ Truthy(config.random_seed)) =>
        /\ results[1].market_evolution = replay[1].market_evolution
        /\ results[1].entities = replay[1].entities

(***************************************************************************)
(* Order of the phases within one step().                                  *)
(***************************************************************************)
StepCompleted == Stepped /\ last_step.raised = None

\* The place of a call in the order step() prescribes.
OrderOf(c) ==
    CASE c[1] = "market_dynamics_model" -> 1
      [] c[1] = "snapshot" -> 2
      [] c[1] = "freelancer_behavior_model" -> 3
      [] c[1] = "client_behavior_model" -> 4
      [] c[1] = "_process_contracts" -> 5
      [] c[1] \in {"is_active", "apply"} -> 6
      [] c[1] = "collect_step_metrics" -> 7
      [] OTHER -> 8

\* The current_time a call was given.
TimeOf(c) ==
    CASE c[1] \in {"freelancer_behavior_model", "client_behavior_model"} -> c[4]
      [] c[1] \in {"is_active", "apply"} -> c[3]
      [] OTHER -> c[2]

CallsNamed(name) ==
    {i \in 1..Len(last_step.calls) : last_step.calls[i][1] = name}

\* C11: a step() that completes runs the six phases once each, in the
\* order market model and snapshot, freelancer then client behaviors,
\* contract lifecycle, scenarios, metrics, time advance; every call of the
\* step is given the time the step was entered with; each behavior call
\* gets as market_state the snapshot appended in this step (never None);
\* the metrics collector is given the contracts and transactions as the
\* lifecycle phase and the scenarios of this step left them.  A step that
\* fails made its calls in the same order.
C11_PhaseOrder ==
    Stepped =>
        LET calls == last_step.calls
        IN  /\ \A i, j \in 1..Len(calls) :
                   i < j => OrderOf(calls[i]) <= OrderOf(calls[j])
            /\ \A i \in 1..Len(calls) : TimeOf(calls[i]) = Before.current_time
            /\ \A i \in CallsNamed("freelancer_behavior_model")
                           \cup CallsNamed("client_behavior_model") :
                   /\ calls[i][3] = Some(Before.current_time)
                   /\ Len(market_snapshots) = Len(Before.market_snapshots) + 1
                   /\ LastSnapshot.timestamp = Before.current_time
            /\ StepCompleted =>
                   /\ Cardinality(CallsNamed("market_dynamics_model")) =
                          (IF market_dynamics_model /= None THEN 1 ELSE 0)
                   /\ Cardinality(CallsNamed("snapshot")) = 1
                   /\ Cardinality(CallsNamed("freelancer_behavior_model")) =
                          (IF freelancer_behavior_model /= None
                           THEN Len(freelancers) ELSE 0)
                   /\ Cardinality(CallsNamed("client_behavior_model")) =
                          (IF client_behavior_model /= None
                           THEN Len(clients) ELSE 0)
                   /\ Cardinality(CallsNamed("_process_contracts")) = 1
                   /\ Cardinality(CallsNamed("is_active")) = Len(scenarios)
                   /\ Cardinality(CallsNamed("collect_step_metrics")) = 1
                   /\ Cardinality(CallsNamed("advance")) = 1
                   /\ calls[Len(calls)][1] = "advance"
                   /\ current_time = Before.current_time + config.time_step
                   /\ \A i \in CallsNamed("collect_step_metrics") :
                          /\ calls[i][3] = contracts
                          /\ calls[i][4] = transactions

\* A completed step with all three models and two scenarios, in which the
\* lifecycle phase completed a contract and a scenario was applied.
C11_Witness ==
    /\ StepCompleted
    /\ market_dynamics_model /= None
    /\ freelancer_behavior_model /= None /\ Len(freelancers) = 2
    /\ client_behavior_model /= None /\ Len(clients) = 2
    /\ Len(scenarios) = 2
    /\ CallsNamed("apply") /= {}
    /\ Len(market_snapshots) = 2
    /\ contracts /= Before.contracts

(***************************************************************************)
(* The lifecycle phase and what a step leaves alone.                       *)
(***************************************************************************)
\* The contracts as the lifecycle phase of the last step() left them.
AfterLifecycle ==
    last_step.calls[CHOOSE i \in CallsNamed("_process_contracts") : TRUE][3]

\* The first tick of the day after the contract's end date has come.
EndDatePassed(c, now) ==
    /\ c.end_date /= Absent
    /\ (c.end_date[1] + 1) * OneDay <= now

\* C12: the lifecycle phase sets a contract to COMPLETED exactly when it is
\* ACTIVE, has an end date, and the end date is before the current date;
\* every other contract, one whose end date is the current date included,
\* leaves the phase as it entered it.
C12_CompletedIffOverdue ==
    CallsNamed("_process_contracts") /= {} =>
        /\ Len(AfterLifecycle) = Len(Before.contracts)
        /\ \A i \in 1..Len(Before.contracts) :
               IF /\ Before.contracts[i].status = "active"
                  /\ EndDatePassed(Before.contracts[i], Before.current_time)
               THEN AfterLifecycle[i] =
                        [Before.contracts[i] EXCEPT !.status = "completed"]
               ELSE AfterLifecycle[i] = Before.contracts[i]

\* One-day steps: a contract ending on day 1 was still active when the
\* step of day 2 was entered (it is counted in that step's snapshot) and
\* is completed by that step.
C12_Witness ==
    /\ StepCompleted
    /\ config.time_step = OneDay
    /\ Before.current_time = 2 * OneDay
    /\ Len(market_snapshots) = 3
    /\ LastSnapshot.active_contracts = 1
    /\ \E i \in 1..Len(contracts) :
           /\ Before.contracts[i].status = "active"
           /\ Before.contracts[i].end_date = Some(1)
           /\ AfterLifecycle[i].status = "completed"

\* C13: with no scenario and no behavioral model, a step changes nothing
\* of the entities but the status of overdue ACTIVE contracts, which
\* becomes COMPLETED: every other contract and contract field, the
\* freelancers, the clients, the keys of the three mappings and the
\* transaction log are as they were.
C13_OnlyCompletionChanges ==
    (Stepped /\ NoStrategies) =>
        /\ freelancers = Before.freelancers
        /\ clients = Before.clients
        /\ transactions = Before.transactions
        /\ Len(contracts) = Len(Before.contracts)
        /\ \A i \in 1..Len(Before.contracts) :
               /\ contracts[i].id = Before.contracts[i].id
               /\ contracts[i].end_date = Before.contracts[i].end_date
               /\ contracts[i].sb988_compliant =
                      Before.contracts[i].sb988_compliant
               /\ contracts[i].status /= Before.contracts[i].status =>
                      /\ Before.contracts[i].status = "active"
                      /\ contracts[i].status = "completed"
                      /\ EndDatePassed(Before.contracts[i], Before.current_time)
               /\ (Before.contracts[i].status /= "active"
                     \/ ~EndDatePassed(Before.contracts[i], Before.current_time))
                      => contracts[i] = Before.contracts[i]

\* A step on day 1 over contracts of all six statuses, four of them past
\* their end date and the ACTIVE one ending that day: none changed.
C13_Witness ==
    /\ StepCompleted /\ NoStrategies
    /\ Len(contracts) = 6
    /\ Before.current_time >= OneDay
    /\ {contracts[i].status : i \in 1..6} = ContractStatus
    /\ contracts = Before.contracts

(***************************************************************************)
(* The scenario phase.                                                     *)
(***************************************************************************)
ScenarioPhaseDone == CallsNamed("collect_step_metrics") /= {}

\* The position in the last step() of the call `name` for scenario k.
ScenarioCalls(name, k) ==
    {i \in CallsNamed(name) : last_step.calls[i][2] = k}

ActiveThen(k) == is_active(Before.scenarios[k], Before.current_time)

\* The scenarios applied in the last step(), in the order of the calls.
AppliedCalls == CallsNamed("apply")

\* C14: in a step whose scenario phase completes, is_active is asked once
\* of every registered scenario, in registration order; apply is called
\* once, right after, for each scenario that answered true and not at all
\* for the others; the first scenario applied is given the contracts as the
\* lifecycle phase left them, each later one the contracts as the scenario
\* applied before it left them, and the step's contracts are what the last
\* one left; an active scenario is applied in every step, not once.
C14_ScenariosInOrder ==
    (Stepped /\ ScenarioPhaseDone) =>
        LET calls == last_step.calls
        IN  /\ \A k \in 1..Len(scenarios) :
                   /\ Cardinality(ScenarioCalls("is_active", k)) = 1
                   /\ Cardinality(ScenarioCalls("apply", k)) =
                          (IF ActiveThen(k) THEN 1 ELSE 0)
                   /\ \A i \in ScenarioCalls("apply", k) :
                          (i - 1) \in ScenarioCalls("is_active", k)
                   /\ scenarios[k].applied =
                          Before.scenarios[k].applied +
                              (IF ActiveThen(k) THEN 1 ELSE 0)
            /\ \A i \in CallsNamed("is_active"), j \in CallsNamed("is_active") :
                   calls[i][2] < calls[j][2] => i < j
            /\ \A j \in AppliedCalls :
                   IF \E i \in AppliedCalls : i < j
                   THEN LET i == CHOOSE i \in AppliedCalls :
                                   /\ i < j
                                   /\ \A h \in AppliedCalls : h < j => h <= i
                        IN  calls[j][4] =
                                ApplyKind(scenarios[calls[i][2]].kind,
                                          [Before EXCEPT !.contracts =
                                               calls[i][4]]).contracts
                   ELSE calls[j][4] = AfterLifecycle
            /\ IF AppliedCalls = {} THEN contracts = AfterLifecycle
               ELSE LET i == CHOOSE i \in AppliedCalls :
                                \A h \in AppliedCalls : h <= i
                    IN  contracts =
                            ApplyKind(scenarios[calls[i][2]].kind,
                                      [Before EXCEPT !.contracts =
                                           calls[i][4]]).contracts

\* Second consecutive step with two scenarios: the first, outside its
\* window, is not applied; the second is applied for the second time.
C14_Witness ==
    /\ StepCompleted
    /\ Len(scenarios) = 2
    /\ ~ActiveThen(1) /\ ActiveThen(2)
    /\ scenarios[1].applied = 0
    /\ scenarios[2].applied = 2
    /\ contracts /= AfterLifecycle

\* Two scenarios applied in one step, the second to what the first left.
C14_WitnessChained ==
    /\ StepCompleted
    /\ Cardinality(AppliedCalls) = 2
    /\ scenarios[1].kind = "comply" /\ scenarios[2].kind = "toggle"
    /\ \E i \in 1..Len(contracts) :
           /\ AfterLifecycle[i].sb988_compliant = "pending_review"
           /\ contracts[i].sb988_compliant = "non_compliant"

(***************************************************************************)
(* What a snapshot holds.                                                  *)
(***************************************************************************)
SnapshotTaken == CallsNamed("snapshot") /= {}

\* Two instants on the same calendar day.
SameDay(x, y) ==
    \E d \in 0..(x + y) :
        /\ d * OneDay <= x /\ x < (d + 1) * OneDay
        /\ d * OneDay <= y /\ y < (d + 1) * OneDay

RECURSIVE AmountOver(_, _)
AmountOver(txs, S) ==
    IF S = {} THEN 0
    ELSE LET i == CHOOSE i \in S : TRUE
         IN  txs[i].amount + AmountOver(txs, S \ {i})

\* C17: the volume of the snapshot appended in a step is the sum of the
\* amounts of the transactions that were in the log when the step was
\* entered and are dated the calendar day of current_time; it is 0 when
\* there is none.
C17_VolumeOfTheDay ==
    (Stepped /\ SnapshotTaken) =>
        LET today == {i \in 1..Len(Before.transactions) :
                        SameDay(Before.transactions[i].transaction_date,
                                Before.current_time)}
        IN  /\ LastSnapshot.total_transaction_volume =
                   AmountOver(Before.transactions, today)
            /\ today = {} => LastSnapshot.total_transaction_volume = 0

\* Four transactions in the log, two of them dated the day of the step.
C17_Witness ==
    /\ StepCompleted
    /\ Len(Before.transactions) = 4
    /\ Before.current_time = 1
    /\ LastSnapshot.total_transaction_volume = 130

\* C18: the compliance rate of a snapshot is the number of contracts that
\* are COMPLIANT (NON_COMPLIANT, PENDING_REVIEW and DISPUTED ones are not)
\* over the number of all contracts, whatever their lifecycle status, as
\* they were when the step was entered; 0 without contracts; every
\* snapshot's rate is in [0, 1].
C18_ComplianceRate ==
    /\ \A s \in 1..Len(market_snapshots) :
           /\ market_snapshots[s].compliance_rate.den > 0
           /\ 0 <= market_snapshots[s].compliance_rate.num
           /\ market_snapshots[s].compliance_rate.num
                  <= market_snapshots[s].compliance_rate.den
    /\ (Stepped /\ SnapshotTaken) =>
           LET n == Len(Before.contracts)
               others == {i \in 1..n : Before.contracts[i].sb988_compliant
                              \in {"non_compliant", "pending_review",
                                   "disputed"}}
               r == LastSnapshot.compliance_rate
           IN  /\ n = 0 => r = Zero
               /\ n > 0 => r.num * n = (n - Cardinality(others)) * r.den

\* Six contracts, two of them COMPLIANT (one of these TERMINATED), the
\* others of all three other compliance statuses: rate 1/3.
C18_Witness ==
    /\ StepCompleted
    /\ Len(Before.contracts) = 6
    /\ {Before.contracts[i].sb988_compliant : i \in 1..6} = ComplianceStatus
    /\ \E i \in 1..6 : /\ Before.contracts[i].status = "terminated"
                       /\ Before.contracts[i].sb988_compliant = "compliant"
    /\ LastSnapshot.compliance_rate = [num |-> 1, den |-> 3]

\* C19: the snapshot appended in a step shows the entities and the
\* transactions as they were when the step was entered (after the market
\* model's call): what the behaviors, the lifecycle phase and the scenarios
\* of that step change is not in it, so the last snapshot of the
\* market_evolution run() returns does not show the last step's changes.
C19_SnapshotLag ==
    /\ (Stepped /\ SnapshotTaken) => LastSnapshot = MarketSnapshot(Before)
    /\ (Returned /\ Stepped /\ last_step.in_run) =>
           results[1].market_evolution[Len(results[1].market_evolution)]
               = MarketSnapshot(Before)

\* run() returned; its last step completed a contract, a scenario made the
\* contracts compliant and the client model appended transactions dated
\* that day: the last snapshot shows none of it.
C19_Witness ==
    /\ Returned /\ StepCompleted /\ last_step.in_run
    /\ LastSnapshot.active_contracts = 1
    /\ \A i \in 1..Len(contracts) : contracts[i].status /= "active"
    /\ LastSnapshot.compliance_rate /= _calculate_compliance_rate(Engine)
    /\ LastSnapshot.total_transaction_volume <
           VolumeOn(transactions, Date(Before.current_time))

(***************************************************************************)
(* run() and the convergence predicate.                                    *)
(***************************************************************************)
\* The predicate as run() found it after its k-th step (fresh engine).
ConvergedAfter(k) == _check_convergence(SubSeq(market_snapshots, 1, k))

\* Ten steps fit under the end date and the iteration cap.
RoomForTen ==
    /\ config.max_iterations >= 10
    /\ config.start_date <= config.end_date
    /\ config.time_step > 0 =>
           config.start_date + 9 * config.time_step <= config.end_date

AppendedByRun ==
    IF pc /= "idle" \/ Returned
    THEN (run_entry.snapshots + 1)..Len(market_snapshots) ELSE {}

SnapshotLogShape ==
    /\ Len(market_snapshots) = metrics_collector.collected
    /\ \A i \in 1..Len(market_snapshots) :
           market_snapshots[i].timestamp =
               config.start_date + (i - 1) * config.time_step
    /\ config.time_step > 0 =>
           \A i, j \in 1..Len(market_snapshots) :
               i < j => market_snapshots[i].timestamp
                            < market_snapshots[j].timestamp
    /\ \A i \in AppendedByRun :
           market_snapshots[i].timestamp <= config.end_date

SnapshotLogGrows ==
    /\ Len(market_snapshots') \in
           {Len(market_snapshots), Len(market_snapshots) + 1}
    /\ SubSeq(market_snapshots', 1, Len(market_snapshots)) = market_snapshots

\* C16: the snapshot log is append-only: when every step() so far has
\* completed, it has one snapshot per step() made (one per call of the
\* metrics collector), a step leaves the snapshots that were there as they
\* were and adds one, the i-th snapshot (from 0) is stamped
\* start_date + i * time_step, increasing for a positive time step, and the
\* snapshots run() appends are stamped no later than end_date.
C16_AppendOnlyLog == []SnapshotLogShape /\ [][SnapshotLogGrows]_vars

\* A step() made by the caller, then a run(): five snapshots, the last
\* stamped the end date.
C16_Witness ==
    /\ Returned
    /\ run_entry.snapshots = 1
    /\ config.time_step = 1
    /\ Len(market_snapshots) >= 5
    /\ LastSnapshot.timestamp = config.end_date
    /\ AppendedByRun /= {}

(***************************************************************************)
(* The list fields of Contract: contracts are constructed, with and        *)
(* without lists of the caller's, and items are appended to their lists.   *)
(***************************************************************************)
ListFields == <<"deliverables", "milestones", "compliance_requirements">>

\* List arguments tried; reference 1 is a list the caller made beforehand.
ListArgs == {NoLists, <<Some(1), Absent, Absent>>, <<Absent, Some(1), Some(1)>>}

InitLists ==
    /\ EngineInit(SimulationConfig(StartDate, OneDay, OneDay, Absent, 1000,
                                   DefaultThreshold), 0)
    /\ CallerInit
    /\ budget = [populate |-> 0, models |-> 0, collector |-> 0,
                 scenarios |-> 0, steps |-> 0, runs |-> 0]
    /\ instances = <<>>
    /\ uuid_issued = 0
    /\ heap = << <<>> >>
    /\ replay = Absent

\* contract.<field>.append(item): the item names the contract and the
\* field it was appended through.
AppendTo(i, k) ==
    /\ SumSeq([r \in 1..Len(heap) |-> Len(heap[r])]) < MaxAppends
    /\ heap' = [heap EXCEPT ![instances[i].entity[ListFields[k]]] =
                   Append(@, <<i, k>>)]
    /\ UNCHANGED <<config, engine_vars, scenarios, model_vars, np_random, pc,
                   iteration, results, outcome, last_step, run_entry, budget,
                   instances, uuid_issued, replay>>

NextLists ==
    \/ \E lists \in ListArgs : NewContract(IdNone, "draft", "pending_review",
                                           lists)
    \/ \E i \in 1..Len(instances), k \in 1..3 : AppendTo(i, k)

SpecLists == InitLists /\ [][NextLists]_vars

\* The fields of the constructed contracts that were passed as None.
DefaultLists ==
    {<<i, k>> \in (1..Len(instances)) \X (1..3) :
        instances[i].list_args[k] = Absent}

ListOf(i, k) == heap[instances[i].entity[ListFields[k]]]

\* C20: a Contract constructed without deliverables, milestones or
\* compliance requirements holds an empty list of its own for each: what
\* such a list holds was appended through that field of that contract, so
\* appending to a list of another contract, or to another list of the same
\* contract, leaves it as it was; no two such lists are one object, and
\* none is a list of the caller's.
C20_OwnDefaultLists ==
    /\ \A p \in DefaultLists :
           /\ \A n \in 1..Len(ListOf(p[1], p[2])) : ListOf(p[1], p[2])[n] = p
           /\ instances[p[1]].entity[ListFields[p[2]]] /= 1
    /\ \A p, q \in DefaultLists :
           p /= q => instances[p[1]].entity[ListFields[p[2]]]
                         /= instances[q[1]].entity[ListFields[q[2]]]

\* Two contracts constructed without lists; one item appended to the
\* deliverables of the first and one to the milestones of the second.
C20_Witness ==
    /\ Len(instances) >= 2
    /\ instances[1].list_args = NoLists /\ instances[2].list_args = NoLists
    /\ ListOf(1, 1) = << <<1, 1>> >>
    /\ ListOf(2, 2) = << <<2, 2>> >>
    /\ ListOf(2, 1) = <<>> /\ ListOf(1, 2) = <<>> /\ ListOf(1, 3) = <<>>
====
